---- MODULE Spec2Model ----
(***************************************************************************)
(* Frame pacing and CPU/GPU synchronisation of Renderer                    *)
(* (engine/src/renderer/Renderer.cpp): the per-frame resource pool, the    *)
(* per-slot fences, BeginFrame / EndFrame, WaitForFrame / WaitForAllFrames *)
(* and OnReconfigure, together with the graphics queue the GPU drains      *)
(* asynchronously.                                                         *)
(*                                                                         *)
(* Slot indices are 0-based as in the code; TLA+ sequences are 1-based, so *)
(* m_frameResources[i] of the code is m_frameResources[i + 1] here.        *)
(***************************************************************************)
EXTENDS Integers, Sequences, FiniteSets, TLC

\* ------------------------------------------------------------------ bounds
\* Largest swap-chain buffer count the application asks for.
MaxBuffers == 2
\* Number of BeginFrame calls explored.
MaxFrames == 3
\* Number of times the frame resource pool is re-created by OnReconfigure.
MaxEpochs == 1

\* --------------------------------------------------------------- constants
\* First value of m_nextFenceValue (0 is the "never submitted" sentinel).
FirstFenceValue == 1
\* fenceValue of a default-constructed FrameResources.
UnsubmittedFenceValue == 0
\* Initial value handed to CreateFence.
InitialFenceCompleted == 0

VARIABLES
    m_frameResources,    \* std::vector<FrameResources>
    m_nextFenceValue,    \* global fence value counter
    m_currentFrameIndex, \* slot selected by the last BeginFrame
    m_commandList,       \* the single shared command list
    swapChain,           \* buffer count, current back-buffer index, presents
    queue,               \* graphics queue: work the GPU has not retired yet
    pc,                  \* "idle", "blocked" (inside a wait), "destroyed", "crashed"
    phase,               \* caller: "Idle" or "Recording" (BeginFrame returned a list)
    call,                \* the API call in progress / last returned
    epoch,               \* number of pool re-creations so far
    beginCalls,          \* number of BeginFrame calls so far
    coldRun,             \* frames begun since the pool was created
    rmFrameOpen          \* resource manager: frame start notified, frame end not yet

vars == <<m_frameResources, m_nextFenceValue, m_currentFrameIndex, m_commandList,
          swapChain, queue, pc, phase, call, epoch, beginCalls, coldRun, rmFrameOpen>>

\* ----------------------------------------------------------------- objects
\* A null unique_ptr / ComPtr / HANDLE.
NoObj == <<>>
\* The object created for slot i by the e-th run of InitializeFrameResources.
Obj(e, i) == <<e, i>>

NoFail == -1
Stages == {"allocator", "fence", "event"}

\* A default-constructed FrameResources (what vector::resize appends).
\* completed is the state of the fence object: ID3D12Fence::GetCompletedValue.
DefaultFrameResources ==
    [commandAllocator |-> NoObj, frameFence |-> NoObj, fenceEvent |-> NoObj,
     fenceValue |-> UnsubmittedFenceValue, completed |-> InitialFenceCompleted]

\* std::vector::resize: keeps the first elements, default-constructs the rest.
Resize(pool, n) ==
    [i \in 1..n |-> IF i <= Len(pool) THEN pool[i] ELSE DefaultFrameResources]

\* Loop body of InitializeFrameResources for slot i; stage is "ok" or the
\* creation that failed.  A failed CommandAllocator::Initialize leaves a
\* wrapper without a device allocator, modelled as NoObj.  The loop assigns
\* the allocator, the fence and the event and never assigns fenceValue.
CreateSlot(frame, e, i, stage) ==
    IF stage = "allocator"
    THEN [frame EXCEPT !.commandAllocator = NoObj]
    ELSE IF stage = "fence"
    THEN [frame EXCEPT !.commandAllocator = Obj(e, i), !.frameFence = NoObj]
    ELSE IF stage = "event"
    THEN [frame EXCEPT !.commandAllocator = Obj(e, i), !.frameFence = Obj(e, i),
                       !.completed = InitialFenceCompleted, !.fenceEvent = NoObj]
    ELSE [frame EXCEPT !.commandAllocator = Obj(e, i), !.frameFence = Obj(e, i),
                       !.completed = InitialFenceCompleted, !.fenceEvent = Obj(e, i)]

\* InitializeFrameResources: resize to the swap chain's buffer count, then
\* create slot by slot, returning false at the first creation that fails
\* (slot failAt, 0-based, at failStage); NoFail means every creation succeeds.
InitializeFrameResources(pool, bufferCount, e, failAt, failStage) ==
    LET r == Resize(pool, bufferCount)
    IN [ok   |-> failAt = NoFail,
        pool |-> [i \in 1..bufferCount |->
                     IF failAt = NoFail \/ i - 1 < failAt
                     THEN CreateSlot(r[i], e, i - 1, "ok")
                     ELSE IF i - 1 = failAt
                     THEN CreateSlot(r[i], e, i - 1, failStage)
                     ELSE r[i]]]

ReleaseFrameResources_KeepsSlots(pool) == pool

\* ReleaseFrameResources: m_frameResources.clear().
ReleaseFrameResources(pool) == <<>>

\* A slot all of whose objects exist.
SlotUsable(frame) ==
    /\ frame.commandAllocator # NoObj
    /\ frame.frameFence # NoObj
    /\ frame.fenceEvent # NoObj

\* What identifies a slot to the renderer: its objects and its fenceValue
\* (not the GPU-written state of the fence).
SlotView(frame) ==
    [commandAllocator |-> frame.commandAllocator, frameFence |-> frame.frameFence,
     fenceEvent |-> frame.fenceEvent, fenceValue |-> frame.fenceValue]

PoolView(pool) == [i \in 1..Len(pool) |-> SlotView(pool[i])]

\* ------------------------------------------------------------ graphics queue
ExecEntry(alloc) == [op |-> "exec", allocator |-> alloc, fence |-> NoObj, value |-> 0]
SignalEntry(f, v) == [op |-> "signal", allocator |-> NoObj, fence |-> f, value |-> v]

\* A command list recorded into alloc is submitted and not yet retired.
InFlight(q, alloc) ==
    /\ alloc # NoObj
    /\ \E k \in 1..Len(q) : q[k].op = "exec" /\ q[k].allocator = alloc

\* ---------------------------------------------------------------- waiting
IsFrameComplete_FailClosed(pool, frameIndex) ==
    /\ frameIndex < Len(pool)
    /\ \/ pool[frameIndex + 1].fenceValue = 0
       \/ pool[frameIndex + 1].completed >= pool[frameIndex + 1].fenceValue

\* IsFrameComplete(frameIndex).
IsFrameComplete(pool, frameIndex) ==
    IF frameIndex >= Len(pool) THEN TRUE
    ELSE IF pool[frameIndex + 1].fenceValue = 0 THEN TRUE
    ELSE pool[frameIndex + 1].completed >= pool[frameIndex + 1].fenceValue

\* WaitForFrame(frameIndex) up to the point where it returns or blocks.
\* armOk is the outcome of SetEventOnCompletion.  "crash" is the call through
\* a null frameFence.  A null fenceEvent makes SetEventOnCompletion itself
\* block until the value is reached, so it is a "block" as well.
WaitForFrame(pool, frameIndex, armOk) ==
    IF frameIndex >= Len(pool) THEN "return"
    ELSE IF pool[frameIndex + 1].fenceValue = 0 THEN "return"
    ELSE IF pool[frameIndex + 1].frameFence = NoObj THEN "crash"
    ELSE IF pool[frameIndex + 1].completed >= pool[frameIndex + 1].fenceValue THEN "return"
    ELSE IF ~armOk THEN "return"
    ELSE "block"

\* WaitForSingleObject returns: the fence has reached the armed value.
WaitSatisfied(pool, frameIndex) ==
    /\ frameIndex < Len(pool)
    /\ pool[frameIndex + 1].completed >= pool[frameIndex + 1].fenceValue

\* WaitForAllFrames from slot `from` on: the index of the first slot whose
\* wait blocks, Len(pool) if no wait blocks, -1 if a wait crashes.
\* armFails is the set of slots whose SetEventOnCompletion fails.
RECURSIVE WaitForAllFrames(_, _, _)
WaitForAllFrames(pool, from, armFails) ==
    IF from >= Len(pool) THEN Len(pool)
    ELSE LET w == WaitForFrame(pool, from, from \notin armFails)
         IN IF w = "crash" THEN -1
            ELSE IF w = "block" THEN from
            ELSE WaitForAllFrames(pool, from + 1, armFails)

\* ------------------------------------------------------------- swap chain
\* SwapChain::Present: a successful present rotates to whichever back buffer
\* the presentation engine reports next; a failed present rotates nothing.
Present(sc, presentOk, nextIndex) ==
    [sc EXCEPT !.index = IF presentOk THEN nextIndex ELSE sc.index,
               !.presents = sc.presents + 1]

\* The buffer count a successful SwapChain::Reconfigure leaves: the
\* requested one, 0 keeping the current count.
ReconfiguredCount(sc, bufferCount) ==
    IF bufferCount = 0 THEN sc.bufferCount ELSE bufferCount

\* SwapChain::Reconfigure: on failure nothing changes; on success the
\* buffers are re-created and the first of them is current.
Reconfigure(sc, bufferCount, reconfOk) ==
    IF ~reconfOk THEN sc
    ELSE [sc EXCEPT !.bufferCount = ReconfiguredCount(sc, bufferCount),
                    !.index = 0]

\* ------------------------------------------------------------------- state
\* The record kept about an API call, in progress or the last one returned.
\*   idx      the slot it selected or is waiting on
\*   arg      the bufferCount argument of OnReconfigure
\*   oldCount the swap chain's buffer count when the call was entered
\*   failed   the operations that reported failure during the call
\*   outcome  "pending" while the call is blocked, then "returned" or "crashed"
\*   returned what the caller gets: "list" / "null" from BeginFrame, "void"
\*            from the void functions
\*   ord, reused, cold (BeginFrame): the number of this BeginFrame since
\*            the pool was created, whether the swap chain reported this
\*            index to an earlier one of them, and ColdRun at entry
PlainCall(op, idx, arg) ==
    [op |-> op, idx |-> idx, arg |-> arg, oldCount |-> swapChain.bufferCount,
     failed |-> {}, outcome |-> "pending", returned |-> "none",
     ord |-> 0, reused |-> FALSE, cold |-> FALSE]

\* Every BeginFrame so far was followed by an EndFrame that submitted and
\* signalled, the pool is the one the constructor made, and the GPU has
\* retired nothing: every command list submitted is still in the queue.
ColdRun ==
    /\ epoch = 0
    /\ beginCalls = m_nextFenceValue - FirstFenceValue
    /\ Cardinality({k \in 1..Len(queue) : queue[k].op = "exec"}) = beginCalls
    /\ Cardinality({k \in 1..Len(queue) : queue[k].op = "signal"}) = beginCalls

Returned(c, failures, returned) ==
    [c EXCEPT !.failed = @ \cup failures, !.outcome = "returned", !.returned = returned]

Crashed(c) == [c EXCEPT !.outcome = "crashed"]

\* The outcomes of a call that may fail: both where the code consults the
\* outcome, success alone where it does not get to look at it.
Outcomes(consulted) == IF consulted THEN BOOLEAN ELSE {TRUE}

\* The slots a WaitForFrame would have to wait for.
Unfinished(pool) == {i \in 0..(Len(pool) - 1) : ~IsFrameComplete(pool, i)}

\* Renderer::Renderer, every step of which succeeded (a failure throws and no
\* renderer exists): the pool has the swap chain's buffer count of fresh
\* slots and the shared command list is created on slot 0's allocator.
Init ==
    \E n \in 1..MaxBuffers :
        /\ swapChain = [bufferCount |-> n, index |-> 0, presents |-> 0]
        /\ m_frameResources =
               InitializeFrameResources(<<>>, n, 0, NoFail, "event").pool
        /\ m_nextFenceValue = FirstFenceValue
        /\ m_currentFrameIndex = 0
        /\ m_commandList = [state |-> "Closed", allocator |-> Obj(0, 0), commands |-> <<>>]
        /\ queue = <<>>
        /\ pc = "idle"
        /\ phase = "Idle"
        /\ call = [op |-> "Renderer", idx |-> 0, arg |-> n, oldCount |-> n,
                   failed |-> {}, outcome |-> "returned", returned |-> "renderer",
                   ord |-> 0, reused |-> FALSE, cold |-> FALSE]
        /\ epoch = 0
        /\ beginCalls = 0
        /\ coldRun = [count |-> 0, used |-> {}]
        /\ rmFrameOpen = FALSE

\* ------------------------------------------------------------- BeginFrame
FrameIndexFor_Stale(sc, current) == current

\* m_currentFrameIndex = m_swapChain->GetCurrentBackBufferIndex();
FrameIndexFor(sc, current) == sc.index

ListResetProceeds_IgnoresFailure(listOk) == TRUE

\* if (!m_commandList->Reset(...)) return nullptr;
ListResetProceeds(listOk) == listOk

\* BeginFrame after WaitForFrame has returned (lines 107-123): reset the
\* slot's allocator, reset the command list against it, record the
\* PRESENT -> RENDER_TARGET barrier.  c is the call, cr the frame log.
\* resetOk / listOk are the outcomes of the two Reset calls.  The call
\* through an allocator that was never created either faults (ubCrash) or
\* hands a null allocator to the command list's Reset, which fails.
ResetAndRecord(c, cr, resetOk, listOk, ubCrash) ==
    LET alloc == m_frameResources[c.idx + 1].commandAllocator
    IN IF alloc = NoObj
       THEN /\ pc' = IF ubCrash THEN "crashed" ELSE "idle"
            /\ call' = IF ubCrash THEN Crashed(c)
                       ELSE Returned(c, {"listReset"}, "null")
            /\ coldRun' = cr
            /\ UNCHANGED <<phase, m_commandList>>
       ELSE IF ~resetOk
       THEN /\ pc' = "idle"
            /\ call' = Returned(c, {"allocatorReset"}, "null")
            /\ coldRun' = cr
            /\ UNCHANGED <<phase, m_commandList>>
       ELSE IF ~ListResetProceeds(listOk)
       THEN /\ pc' = "idle"
            /\ call' = Returned(c, {"listReset"}, "null")
            /\ coldRun' = cr
            /\ UNCHANGED <<phase, m_commandList>>
       ELSE /\ pc' = "idle"
            /\ call' = Returned(c, IF listOk THEN {} ELSE {"listReset"}, "list")
            /\ coldRun' = cr
            /\ phase' = "Recording"
            /\ m_commandList' = [state |-> "Recording", allocator |-> alloc,
                                 commands |-> <<"PRESENT->RENDER_TARGET">>]

\* BeginFrame up to its return or up to the point where it blocks in
\* WaitForSingleObject.  Its first statement notifies the resource manager
\* of the frame start (line 98).
BeginFrame ==
    /\ pc = "idle"
    /\ phase = "Idle"
    /\ beginCalls < MaxFrames
    /\ \E armOk \in Outcomes(FrameIndexFor(swapChain, m_currentFrameIndex)
                                 \in Unfinished(m_frameResources)),
          resetOk \in BOOLEAN, listOk \in BOOLEAN, ubCrash \in BOOLEAN :
        LET idx == FrameIndexFor(swapChain, m_currentFrameIndex)
            cr == [coldRun EXCEPT !.count = @ + 1, !.used = @ \cup {swapChain.index}]
            w == WaitForFrame(m_frameResources, idx, armOk)
            c == [PlainCall("BeginFrame", idx, 0) EXCEPT
                     !.ord = cr.count,
                     !.reused = swapChain.index \in coldRun.used,
                     !.cold = ColdRun]
        IN /\ m_currentFrameIndex' = idx
           /\ beginCalls' = beginCalls + 1
           /\ IF w = "crash"
              THEN /\ pc' = "crashed"
                   /\ call' = Crashed(c)
                   /\ coldRun' = cr
                   /\ UNCHANGED <<phase, m_commandList>>
              ELSE IF w = "block"
              THEN /\ pc' = "blocked"
                   /\ call' = c
                   /\ coldRun' = cr
                   /\ UNCHANGED <<phase, m_commandList>>
              ELSE ResetAndRecord(c, cr, resetOk, listOk, ubCrash)
    /\ rmFrameOpen' = TRUE
    /\ UNCHANGED <<m_frameResources, m_nextFenceValue, swapChain, queue, epoch>>

\* WaitForSingleObject inside BeginFrame returns and BeginFrame runs on.
BeginFrameResume ==
    /\ pc = "blocked"
    /\ call.op = "BeginFrame"
    /\ WaitSatisfied(m_frameResources, call.idx)
    /\ \E resetOk \in BOOLEAN, listOk \in BOOLEAN, ubCrash \in BOOLEAN :
        ResetAndRecord(call, coldRun, resetOk, listOk, ubCrash)
    /\ UNCHANGED <<m_frameResources, m_nextFenceValue, m_currentFrameIndex, swapChain,
                   queue, epoch, beginCalls, rmFrameOpen>>

\* --------------------------------------------------------------- EndFrame
EndFrameSubmits_IgnoresClose(closeOk) == TRUE

\* if (!m_commandList->Close()) return;
EndFrameSubmits(closeOk) == closeOk

AfterDraw_NoIncrement(v) == v

\* m_nextFenceValue++ : the counter after value v was drawn.
AfterDraw(v) == v + 1

StoreFenceValue_Dropped(pool, idx, v) == pool

\* currentFrame.fenceValue = currentFenceValue;
StoreFenceValue(pool, idx, v) == [pool EXCEPT ![idx + 1].fenceValue = v]

EnqueueFrame_SignalFirst(q, alloc, fence, v, signalled) ==
    IF signalled
    THEN q \o <<SignalEntry(fence, v), ExecEntry(alloc)>>
    ELSE Append(q, ExecEntry(alloc))

\* ExecuteCommandLists (line 140), then Signal (lines 146-147) if the call
\* succeeds, on the same queue.
EnqueueFrame(q, alloc, fence, v, signalled) ==
    IF signalled
    THEN q \o <<ExecEntry(alloc), SignalEntry(fence, v)>>
    ELSE Append(q, ExecEntry(alloc))

\* EndFrame.  The resource manager is notified of the frame end at line 152,
\* past the return of a failed Close.  closeOk, signalOk, presentOk are the outcomes of Close, of the
\* queue's Signal and of Present; nextIndex is the back buffer the swap chain
\* reports after a successful present.  Signal on a fence that was never
\* created fails.  When m_currentFrameIndex is past the end of the pool
\* (the pool shrank since BeginFrame) the slot reference is out of bounds:
\* the store and the fence read either fault (ubCrash) or hit the vector's
\* dead storage, where the store is lost and the fence read is null.
EndFrame ==
    /\ pc = "idle"
    /\ phase = "Recording"
    /\ \E closeOk \in BOOLEAN, signalOk \in BOOLEAN, presentOk \in BOOLEAN,
          ubCrash \in Outcomes(m_currentFrameIndex >= Len(m_frameResources)),
          nextIndex \in 0..(swapChain.bufferCount - 1) :
        LET idx == m_currentFrameIndex
            inRange == idx < Len(m_frameResources)
            v == m_nextFenceValue
            fence == IF inRange THEN m_frameResources[idx + 1].frameFence ELSE NoObj
            signalled == signalOk /\ fence # NoObj
            c == [PlainCall("EndFrame", idx, 0) EXCEPT
                     !.failed = (IF closeOk THEN {} ELSE {"close"})
                                \cup (IF closeOk /\ ~signalled THEN {"signal"} ELSE {})
                                \cup (IF closeOk /\ ~presentOk THEN {"present"} ELSE {})]
        IN /\ phase' = "Idle"
           /\ m_commandList' = [m_commandList EXCEPT
                                   !.state = "Closed",
                                   !.commands = Append(@, "RENDER_TARGET->PRESENT")]
           /\ IF ~EndFrameSubmits(closeOk)
              THEN /\ call' = Returned(c, {}, "void")
                   /\ UNCHANGED <<m_frameResources, m_nextFenceValue, swapChain, queue, pc,
                                  rmFrameOpen>>
              ELSE /\ m_nextFenceValue' = AfterDraw(v)
                   /\ m_frameResources' =
                          IF inRange
                          THEN StoreFenceValue(m_frameResources, idx, v)
                          ELSE m_frameResources
                   /\ queue' = EnqueueFrame(queue, m_commandList.allocator, fence, v,
                                            signalled)
                   /\ IF ~inRange /\ ubCrash
                      THEN /\ pc' = "crashed"
                           /\ call' = Crashed(c)
                           /\ UNCHANGED <<swapChain, rmFrameOpen>>
                      ELSE /\ pc' = "idle"
                           /\ call' = Returned(c, {}, "void")
                           /\ rmFrameOpen' = FALSE
                           /\ swapChain' = Present(swapChain, presentOk, nextIndex)
    /\ UNCHANGED <<m_currentFrameIndex, epoch, beginCalls, coldRun>>

\* -------------------------------------------------------------------- GPU
\* The GPU retires the oldest entry of the graphics queue: a command list
\* finishes executing, or a fence takes the signalled value.
GpuStep ==
    /\ pc \in {"idle", "blocked"}
    /\ queue # <<>>
    /\ queue' = Tail(queue)
    /\ m_frameResources' =
           IF Head(queue).op = "signal"
           THEN [i \in 1..Len(m_frameResources) |->
                    IF m_frameResources[i].frameFence = Head(queue).fence
                    THEN [m_frameResources[i] EXCEPT !.completed = Head(queue).value]
                    ELSE m_frameResources[i]]
           ELSE m_frameResources
    /\ UNCHANGED <<m_nextFenceValue, m_currentFrameIndex, m_commandList, swapChain,
                   pc, phase, call, epoch, beginCalls, coldRun, rmFrameOpen>>

\* ---------------------------------------------------------- OnReconfigure
NewBufferCount_NoZero(bufferCount, oldBufferCount) == bufferCount

\* UINT newBufferCount = (bufferCount == 0) ? oldBufferCount : bufferCount;
NewBufferCount(bufferCount, oldBufferCount) ==
    IF bufferCount = 0 THEN oldBufferCount ELSE bufferCount

ReconfigureProceeds_IgnoresFailure(reconfOk) == TRUE

\* if (!m_swapChain->Reconfigure(...)) return;
ReconfigureProceeds(reconfOk) == reconfOk

\* if (newBufferCount != oldBufferCount)
RecreatesPool(newBufferCount, oldBufferCount) == newBufferCount # oldBufferCount

\* The call record after a WaitForAllFrames that came to slot j (see
\* WaitForAllFrames): the slot it blocks on.
Drained(c, j) == [c EXCEPT !.idx = IF j = -1 THEN 0 ELSE j]

\* The frames begun on a pool at the moment it is created: the frame being
\* recorded, if there is one and its slot exists in the new pool.
FramesOpenOn(pool) ==
    IF phase = "Recording" /\ m_currentFrameIndex < Len(pool)
    THEN [count |-> 1, used |-> {m_currentFrameIndex}]
    ELSE [count |-> 0, used |-> {}]

\* OnReconfigure after WaitForAllFrames has returned (lines 219-234).
\* reconfOk is the outcome of SwapChain::Reconfigure, failAt / failStage the
\* creation that fails in InitializeFrameResources (if any).
ReconfigureTail(c, reconfOk, failAt, failStage) ==
    LET oldBufferCount == swapChain.bufferCount
        newBufferCount == NewBufferCount(c.arg, oldBufferCount)
        sc == Reconfigure(swapChain, c.arg, reconfOk)
        r == InitializeFrameResources(ReleaseFrameResources(m_frameResources),
                                      sc.bufferCount, epoch + 1, failAt, failStage)
        swapFailed == IF reconfOk THEN {} ELSE {"reconfigure"}
    IN /\ pc' = "idle"
       /\ IF ~ReconfigureProceeds(reconfOk)
          THEN /\ call' = Returned(c, swapFailed, "void")
               /\ UNCHANGED <<m_frameResources, swapChain, epoch, coldRun>>
          ELSE /\ swapChain' = sc
               /\ IF RecreatesPool(newBufferCount, oldBufferCount)
                  THEN /\ m_frameResources' = r.pool
                       /\ epoch' = epoch + 1
                       /\ call' = Returned(c, swapFailed \cup
                                              (IF r.ok THEN {} ELSE {"init"}), "void")
                       /\ coldRun' = FramesOpenOn(r.pool)
                  ELSE /\ call' = Returned(c, swapFailed, "void")
                       /\ UNCHANGED <<m_frameResources, epoch, coldRun>>

\* The creations of InitializeFrameResources explored as failing, for n
\* slots: none, or (mayFail) one of the three creations of the last slot.
InitFailures(n, mayFail) ==
    {<<NoFail, "event">>} \cup (IF mayFail THEN {n - 1} \X Stages ELSE {})

\* ReconfigureTail over its inputs.  The bufferCount argument is first read
\* after the drain (line 221), so it is drawn here; re-creations of the pool
\* are explored up to MaxEpochs.
ReconfigureRest(c, mayFail) ==
    \E bufferCount \in 0..MaxBuffers, reconfOk \in BOOLEAN :
        /\ RecreatesPool(NewBufferCount(bufferCount, swapChain.bufferCount),
                         swapChain.bufferCount) => epoch < MaxEpochs
        /\ \E f \in InitFailures(ReconfiguredCount(swapChain, bufferCount), mayFail) :
               ReconfigureTail([c EXCEPT !.arg = bufferCount], reconfOk, f[1], f[2])

\* ~Renderer after WaitForAllFrames has returned: ReleaseFrameResources.
DestructorTail(c) ==
    /\ pc' = "destroyed"
    /\ call' = Returned(c, {}, "void")
    /\ m_frameResources' = ReleaseFrameResources(m_frameResources)
    /\ UNCHANGED <<swapChain, epoch, coldRun>>

\* WaitForAllFrames from slot `from` on, then the rest of the caller (c.op):
\* the call crashes, blocks on slot j, or runs on.  mayFail tells whether
\* creations of InitializeFrameResources are explored as failing.
DrainThen(c, from, mayFail) ==
    \E armFails \in SUBSET Unfinished(m_frameResources) :
        LET j == WaitForAllFrames(m_frameResources, from, armFails)
            d == Drained(c, j)
        IN IF j = -1
           THEN /\ pc' = "crashed"
                /\ call' = Crashed(d)
                /\ UNCHANGED <<m_frameResources, swapChain, epoch, coldRun>>
           ELSE IF j < Len(m_frameResources)
           THEN /\ pc' = "blocked"
                /\ call' = d
                /\ UNCHANGED <<m_frameResources, swapChain, epoch, coldRun>>
           ELSE IF c.op = "~Renderer"
           THEN DestructorTail(d)
           ELSE ReconfigureRest(d, mayFail)

\* OnReconfigure(width, height, bufferCount) up to its return or up to the
\* first wait of WaitForAllFrames that blocks.
OnReconfigure ==
    /\ pc = "idle"
    /\ DrainThen(PlainCall("OnReconfigure", 0, 0), 0, TRUE)
    /\ UNCHANGED <<m_nextFenceValue, m_currentFrameIndex, m_commandList, queue, phase,
                   beginCalls, rmFrameOpen>>

\* A wait of OnReconfigure's WaitForAllFrames returns and the call runs on.
OnReconfigureResume ==
    /\ pc = "blocked"
    /\ call.op = "OnReconfigure"
    /\ WaitSatisfied(m_frameResources, call.idx)
    /\ DrainThen(call, call.idx + 1, TRUE)
    /\ UNCHANGED <<m_nextFenceValue, m_currentFrameIndex, m_commandList, queue, phase,
                   beginCalls, rmFrameOpen>>

\* OnReconfigure called between frames, every creation of
\* InitializeFrameResources succeeding.
ReconfigureBetweenFrames ==
    /\ pc = "idle"
    /\ phase = "Idle"
    /\ DrainThen(PlainCall("OnReconfigure", 0, 0), 0, FALSE)
    /\ UNCHANGED <<m_nextFenceValue, m_currentFrameIndex, m_commandList, queue, phase,
                   beginCalls, rmFrameOpen>>

ReconfigureBetweenFramesResume ==
    /\ pc = "blocked"
    /\ call.op = "OnReconfigure"
    /\ WaitSatisfied(m_frameResources, call.idx)
    /\ DrainThen(call, call.idx + 1, FALSE)
    /\ UNCHANGED <<m_nextFenceValue, m_currentFrameIndex, m_commandList, queue, phase,
                   beginCalls, rmFrameOpen>>

\* ------------------------------------------------------------- ~Renderer
\* ~Renderer up to its end or up to the first wait that blocks.
Destructor ==
    /\ pc = "idle"
    /\ DrainThen(PlainCall("~Renderer", 0, 0), 0, FALSE)
    /\ UNCHANGED <<m_nextFenceValue, m_currentFrameIndex, m_commandList, queue, phase,
                   beginCalls, rmFrameOpen>>

\* A wait of ~Renderer's WaitForAllFrames returns and the destructor runs on.
DestructorResume ==
    /\ pc = "blocked"
    /\ call.op = "~Renderer"
    /\ WaitSatisfied(m_frameResources, call.idx)
    /\ DrainThen(call, call.idx + 1, FALSE)
    /\ UNCHANGED <<m_nextFenceValue, m_currentFrameIndex, m_commandList, queue, phase,
                   beginCalls, rmFrameOpen>>

\* -------------------------------------------------------- IsFrameComplete
\* The caller asks IsFrameComplete(frameIndex), for any index, between two
\* other calls.  The function is const and has no wait in it; the read
\* through a fence that was never created (line 203) faults.
IsFrameCompleteQuery ==
    /\ pc = "idle"
    /\ \E frameIndex \in 0..MaxBuffers :
        LET c == PlainCall("IsFrameComplete", frameIndex, 0)
            faults == /\ frameIndex < Len(m_frameResources)
                      /\ m_frameResources[frameIndex + 1].fenceValue # 0
                      /\ m_frameResources[frameIndex + 1].frameFence = NoObj
        IN IF faults
           THEN /\ pc' = "crashed"
                /\ call' = Crashed(c)
           ELSE /\ pc' = "idle"
                /\ call' = Returned(c, {},
                              IF IsFrameComplete(m_frameResources, frameIndex)
                              THEN "true" ELSE "false")
    /\ UNCHANGED <<m_frameResources, m_nextFenceValue, m_currentFrameIndex,
                   m_commandList, swapChain, queue, phase, epoch, beginCalls, coldRun,
                   rmFrameOpen>>

\* ---------------------------------------------------------- specification
Next ==
    \/ BeginFrame
    \/ BeginFrameResume
    \/ EndFrame
    \/ GpuStep
    \/ OnReconfigure
    \/ OnReconfigureResume
    \/ Destructor
    \/ DestructorResume

\* Every call of the renderer, in any order the caller may issue them, with
\* the GPU running alongside.
Spec == Init /\ [][Next]_vars

\* The frame loop alone: the pool the constructor made, drained by the GPU.
NextFrames ==
    \/ BeginFrame
    \/ BeginFrameResume
    \/ EndFrame
    \/ GpuStep

SpecFrames == Init /\ [][NextFrames]_vars

\* The frame loop with reconfigurations between frames.
NextReconfigure ==
    \/ BeginFrame
    \/ BeginFrameResume
    \/ EndFrame
    \/ GpuStep
    \/ ReconfigureBetweenFrames
    \/ ReconfigureBetweenFramesResume

SpecReconfigure == Init /\ [][NextReconfigure]_vars

\* The frame loop with the caller polling IsFrameComplete.
NextQueries ==
    \/ BeginFrame
    \/ BeginFrameResume
    \/ EndFrame
    \/ GpuStep
    \/ IsFrameCompleteQuery

SpecQueries == Init /\ [][NextQueries]_vars

\* Every call of the renderer with a GPU that keeps running: it eventually
\* retires the entry at the head of the queue, and a thread blocked in
\* WaitForSingleObject runs on once its fence has reached the armed value.
SpecLive ==
    /\ Init
    /\ [][Next]_vars
    /\ WF_vars(GpuStep)
    /\ WF_vars(BeginFrameResume)
    /\ WF_vars(OnReconfigureResume)
    /\ WF_vars(DestructorResume)

\* ------------------------------------------------------------------ steps
\* The step in which BeginFrame calls Reset on the allocator of the slot it
\* selected: BeginFrame ran through, or came back from its wait.
AllocatorResetStep ==
    /\ call'.op = "BeginFrame"
    /\ call'.outcome = "returned"
    /\ beginCalls' = beginCalls + 1 \/ (pc = "blocked" /\ call.op = "BeginFrame")
    /\ m_frameResources[call'.idx + 1].commandAllocator # NoObj

\* The step in which BeginFrame returns to its caller.
BeginFrameReturnStep ==
    /\ call'.op = "BeginFrame"
    /\ call'.outcome = "returned"
    /\ beginCalls' = beginCalls + 1 \/ (pc = "blocked" /\ call.op = "BeginFrame")

\* The step in which ReleaseFrameResources runs.
ReleaseStep == epoch' = epoch + 1 \/ (pc # "destroyed" /\ pc' = "destroyed")

\* The step in which EndFrame runs.
EndFrameStep == phase = "Recording" /\ phase' = "Idle"

\* The step in which OnReconfigure returns.
ReconfigureReturnStep ==
    /\ call'.op = "OnReconfigure"
    /\ call'.outcome = "returned"
    /\ pc \in {"idle", "blocked"}
    /\ queue' = queue

\* A step inside OnReconfigure that leaves it blocked in a wait.
ReconfigureWaitStep ==
    /\ call'.op = "OnReconfigure"
    /\ call'.outcome = "pending"

\* ----------------------------------------------------------------- claims
\* C1: BeginFrame resets a slot's command allocator only when every command
\* list submitted from that allocator has completed on the GPU: the slot
\* reports complete and no list recorded into the allocator is in the queue.
\* This is the claim as stated; the path on which SetEventOnCompletion
\* fails violates it.
C1_ResetOnlyAfterCompletion ==
    [][AllocatorResetStep =>
          /\ IsFrameComplete(m_frameResources, call'.idx)
          /\ ~InFlight(queue, m_frameResources[call'.idx + 1].commandAllocator)]_vars

\* C2: whenever the pool is released (destructor, or OnReconfigure with a
\* changed buffer count) every slot reports complete at that moment.  This
\* is the claim as stated; a drain whose SetEventOnCompletion failed
\* violates it.
C2_ReleaseOnlyWhenDrained ==
    [][ReleaseStep =>
          \A i \in 0..(Len(m_frameResources) - 1) :
              IsFrameComplete(m_frameResources, i)]_vars

\* C3: after bufferCount full frames with nothing retired by the GPU, the
\* next BeginFrame does not reset the reused slot's allocator before the
\* slot's fence has reached the slot's fenceValue.  This is the claim as
\* stated; the path on which SetEventOnCompletion fails violates it.
C3_ReusedSlotWaits ==
    [][(AllocatorResetStep /\ call'.cold /\ call'.ord = swapChain.bufferCount + 1) =>
          IsFrameComplete(m_frameResources, call'.idx)]_vars

FenceValuesUnique ==
    /\ \A i \in 1..Len(m_frameResources) :
          /\ m_frameResources[i].fenceValue < m_nextFenceValue
          /\ m_frameResources[i].completed < m_nextFenceValue
          /\ \A j \in 1..Len(m_frameResources) :
                (i # j /\ m_frameResources[i].fenceValue # 0)
                    => m_frameResources[i].fenceValue # m_frameResources[j].fenceValue
    /\ \A k \in 1..Len(queue) :
          queue[k].op = "signal" =>
              /\ queue[k].value < m_nextFenceValue
              /\ \A l \in 1..Len(queue) :
                    (l # k /\ queue[l].op = "signal") => queue[l].value # queue[k].value

\* C5: the counter never decreases, in OnReconfigure or anywhere else; an
\* EndFrame that submits stores the value v it draws, signals no other
\* value, and leaves the counter at v + 1; the values in use stay distinct.
C5_CounterStrictlyIncreasing ==
    [][/\ m_nextFenceValue' >= m_nextFenceValue
       /\ Len(queue') > Len(queue) =>
             /\ m_nextFenceValue' = m_nextFenceValue + 1
             /\ m_currentFrameIndex < Len(m_frameResources) =>
                   m_frameResources'[m_currentFrameIndex + 1].fenceValue = m_nextFenceValue
             /\ \A k \in (Len(queue) + 1)..Len(queue') :
                   queue'[k].op = "signal" => queue'[k].value = m_nextFenceValue
       /\ FenceValuesUnique']_vars

\* A frame was submitted on a re-created pool: its value follows on the
\* values drawn before the reconfigure.
C5_Witness ==
    /\ epoch >= 1
    /\ m_nextFenceValue >= 3
    /\ \E i \in 1..Len(m_frameResources) :
          m_frameResources[i].fenceValue = m_nextFenceValue - 1

\* C6: an EndFrame whose Close fails submits nothing, signals nothing, leaves
\* every slot and the counter as they were, and does not present.
C6_CloseFailureAbandonsFrame ==
    [][(EndFrameStep /\ "close" \in call'.failed) =>
          /\ queue' = queue
          /\ m_frameResources' = m_frameResources
          /\ m_nextFenceValue' = m_nextFenceValue
          /\ swapChain' = swapChain]_vars

\* Close failed in the EndFrame of a frame on a slot that carries the fence
\* value of an earlier submission.
C6_Witness ==
    /\ call.op = "EndFrame"
    /\ call.outcome = "returned"
    /\ "close" \in call.failed
    /\ m_frameResources[call.idx + 1].fenceValue # 0

\* C7: an OnReconfigure with a different buffer count, whose swap-chain
\* reconfigure and slot creations succeed, leaves exactly that many slots,
\* each with newly created objects and fenceValue 0.
C7_ChangedCountGivesFreshPool ==
    (/\ call.op = "OnReconfigure"
     /\ call.outcome = "returned"
     /\ call.arg \notin {0, call.oldCount}
     /\ call.failed = {})
    => /\ Len(m_frameResources) = call.arg
       /\ \A i \in 1..Len(m_frameResources) :
             /\ m_frameResources[i].fenceValue = 0
             /\ m_frameResources[i].commandAllocator = Obj(epoch, i - 1)
             /\ m_frameResources[i].frameFence = Obj(epoch, i - 1)
             /\ m_frameResources[i].fenceEvent = Obj(epoch, i - 1)

\* The pool was re-created after fence values had been drawn for the old one.
C7_Witness ==
    /\ call.op = "OnReconfigure"
    /\ call.outcome = "returned"
    /\ call.arg \notin {0, call.oldCount}
    /\ call.failed = {}
    /\ m_nextFenceValue > FirstFenceValue

\* C8: an OnReconfigure that asks for the current buffer count, or for 0,
\* leaves the pool as it was from entry to return: the same number of slots,
\* the same objects, the same fenceValues.
C8_SameCountKeepsPool ==
    [][((ReconfigureReturnStep /\ call'.arg \in {0, call'.oldCount})
        \/ ReconfigureWaitStep) =>
          PoolView(m_frameResources') = PoolView(m_frameResources)]_vars

\* OnReconfigure returned from a request for 0 buffers on a pool that
\* carries a fence value.
C8_Witness ==
    /\ call.op = "OnReconfigure"
    /\ call.outcome = "returned"
    /\ call.arg = 0
    /\ call.failed = {}
    /\ \E i \in 1..Len(m_frameResources) : m_frameResources[i].fenceValue # 0

\* C9: an OnReconfigure whose swap-chain reconfigure fails leaves the
\* renderer's state as it was: the pool (slot count, slot objects and
\* fenceValues), the counter, the frame index and the command list.
C9_SwapChainFailureKeepsState ==
    [][(ReconfigureReturnStep /\ "reconfigure" \in call'.failed) =>
          /\ PoolView(m_frameResources') = PoolView(m_frameResources)
          /\ m_nextFenceValue' = m_nextFenceValue
          /\ m_currentFrameIndex' = m_currentFrameIndex
          /\ m_commandList' = m_commandList]_vars

\* The swap chain refused a request for a different buffer count on a pool
\* that carries a fence value.
C9_Witness ==
    /\ call.op = "OnReconfigure"
    /\ call.outcome = "returned"
    /\ "reconfigure" \in call.failed
    /\ call.arg \notin {0, call.oldCount}
    /\ Len(m_frameResources) = call.oldCount
    /\ \E i \in 1..Len(m_frameResources) : m_frameResources[i].fenceValue # 0

\* C10: an OnReconfigure in which InitializeFrameResources failed hands its
\* caller an error.  This is the claim as stated; OnReconfigure returns void
\* on every path.
C10_InitFailureSurfaced ==
    (/\ call.op = "OnReconfigure"
     /\ call.outcome = "returned"
     /\ "init" \in call.failed)
    => call.returned = "error"

\* C11: BeginFrame returns the list exactly when neither reset failed; when a
\* reset failed it returns null, records no PRESENT -> RENDER_TARGET barrier
\* and leaves the shared command list as it was, not Recording.
C11_NullOnResetFailure ==
    [][BeginFrameReturnStep =>
          /\ call'.returned = "list" <=> call'.failed = {}
          /\ call'.failed # {} =>
                /\ call'.returned = "null"
                /\ m_commandList' = m_commandList
                /\ m_commandList'.state # "Recording"
          /\ call'.failed = {} =>
                /\ m_commandList'.state = "Recording"
                /\ m_commandList'.commands = <<"PRESENT->RENDER_TARGET">>
                /\ m_commandList'.allocator =
                       m_frameResources[call'.idx + 1].commandAllocator]_vars

\* The command-list reset failed, after the allocator reset succeeded, in a
\* BeginFrame that follows a recorded frame.
C11_Witness ==
    /\ call.op = "BeginFrame"
    /\ call.outcome = "returned"
    /\ call.failed = {"listReset"}
    /\ call.returned = "null"
    /\ call.ord >= 2
    /\ m_frameResources[call.idx + 1].commandAllocator # NoObj
    /\ Len(m_commandList.commands) = 2

\* C12: IsFrameComplete(index) returns true exactly when the index is past
\* the end of the pool, or the slot's fenceValue is 0, or the slot's fence
\* has completed a value >= the slot's fenceValue; the call returns at once
\* (it never leaves the caller in a wait) and changes nothing.
C12_IsFrameCompleteExact ==
    [][(call'.op = "IsFrameComplete" /\ call' # call) =>
          /\ pc' = "idle"
          /\ call'.outcome = "returned"
          /\ call'.returned \in {"true", "false"}
          /\ call'.returned = "true" <=>
                \/ call'.idx >= Len(m_frameResources)
                \/ m_frameResources[call'.idx + 1].fenceValue = 0
                \/ m_frameResources[call'.idx + 1].completed
                      >= m_frameResources[call'.idx + 1].fenceValue
          /\ UNCHANGED <<m_frameResources, m_nextFenceValue, m_currentFrameIndex,
                         m_commandList, swapChain, queue, phase>>]_vars

\* IsFrameComplete answered "true" for a slot whose submitted value the GPU
\* has reached, while another slot is still outstanding.
C12_Witness ==
    /\ call.op = "IsFrameComplete"
    /\ call.returned = "true"
    /\ call.idx < Len(m_frameResources)
    /\ m_frameResources[call.idx + 1].fenceValue # 0
    /\ \E i \in 0..(Len(m_frameResources) - 1) : ~IsFrameComplete(m_frameResources, i)

\* C13: what an EndFrame that submits leaves in the renderer does not depend
\* on the outcome of Present: the counter is one past the value v drawn,
\* the slot holds v, the queue has gained the command list and (unless the
\* Signal call failed) the signal of v on the slot's fence, and the caller
\* is back between frames with the list closed.
C13_PresentFailureHarmless ==
    [][(EndFrameStep /\ "close" \notin call'.failed /\ pc' = "idle") =>
          LET idx == m_currentFrameIndex
              v == m_nextFenceValue
              exec == ExecEntry(m_commandList.allocator)
          IN /\ m_nextFenceValue' = v + 1
             /\ m_currentFrameIndex' = idx
             /\ m_commandList'.state = "Closed"
             /\ idx < Len(m_frameResources) =>
                   /\ m_frameResources' =
                          [m_frameResources EXCEPT ![idx + 1].fenceValue = v]
                   /\ queue' =
                          IF "signal" \in call'.failed
                          THEN Append(queue, exec)
                          ELSE queue \o <<exec,
                                   SignalEntry(m_frameResources[idx + 1].frameFence, v)>>]_vars

\* Present failed in an EndFrame that submitted and signalled on a slot
\* that is being used for the second time.
C13_Witness ==
    /\ call.op = "EndFrame"
    /\ call.outcome = "returned"
    /\ call.failed = {"present"}
    /\ m_frameResources[call.idx + 1].fenceValue = m_nextFenceValue - 1
    /\ m_nextFenceValue >= FirstFenceValue + 2
    /\ Len(queue) >= 2

\* The command lists submitted by EndFrame that the GPU has not finished.
OutstandingFrames == {k \in 1..Len(queue) : queue[k].op = "exec"}

\* C14: while the renderer lives, the frames submitted and not yet completed
\* on the GPU are never more than the pool has slots, and no slot has two of
\* them.  This is the claim
\* as stated; a BeginFrame whose SetEventOnCompletion failed goes on without
\* the wait and the frame it starts is submitted on top of the slot's
\* previous one.
C14_AtMostBufferCountAhead ==
    pc # "destroyed" =>
        /\ Cardinality(OutstandingFrames) <= Len(m_frameResources)
        /\ \A i \in 1..Len(m_frameResources) :
              Cardinality({k \in OutstandingFrames :
                              queue[k].allocator = m_frameResources[i].commandAllocator}) <= 1

\* A step of the third BeginFrame of the constructor's two-slot pool, on
\* slot 0, after value 1 was recorded in slot 0 and signalled on its fence
\* and value 2 was recorded in slot 1 and signalled on its fence.
ThirdFrameStep ==
    /\ call'.op = "BeginFrame"
    /\ call'.idx = 0
    /\ call'.ord = 3
    /\ epoch = 0
    /\ Len(m_frameResources) = 2
    /\ m_frameResources[1].fenceValue = 1
    /\ m_frameResources[2].fenceValue = 2
    /\ \A i \in 1..2 :
          \/ m_frameResources[i].completed = i
          \/ \E k \in 1..Len(queue) :
                queue[k] = SignalEntry(m_frameResources[i].frameFence, i)

\* C15: that BeginFrame does not block once slot 0's fence has reached 1,
\* whatever slot 1's fence has reached, and does not go on to reset slot 0's
\* allocator before slot 0's fence has reached 1.  This is the claim as
\* stated; the path on which SetEventOnCompletion fails violates its second
\* half.
C15_WaitsForOwnValue ==
    [][ThirdFrameStep =>
          /\ (beginCalls' = beginCalls + 1 /\ m_frameResources[1].completed >= 1)
                 => pc' # "blocked"
          /\ AllocatorResetStep => m_frameResources[1].completed >= 1]_vars

\* The fence value drawn by the EndFrame that submitted the command list at
\* position k of the queue: every submitting EndFrame enqueues one command
\* list and draws one value, so the last list in the queue goes with
\* m_nextFenceValue - 1, the one before it with m_nextFenceValue - 2, ...
ExecValue(k) ==
    m_nextFenceValue - Cardinality({j \in k..Len(queue) : queue[j].op = "exec"})

\* C16: the signal of v follows the frame's command list in the queue, so a
\* slot whose fence has reached the slot's fenceValue v has no command list
\* of the EndFrame that drew v left in the queue, and every signal in the
\* queue stands directly behind the command list of its frame.
C16_SignalAfterSubmission ==
    /\ \A i \in 1..Len(m_frameResources) :
          (/\ m_frameResources[i].fenceValue # 0
           /\ m_frameResources[i].completed >= m_frameResources[i].fenceValue)
          => \A k \in 1..Len(queue) :
                queue[k].op = "exec" => ExecValue(k) # m_frameResources[i].fenceValue
    /\ \A k \in 1..Len(queue) :
          (queue[k].op = "signal" /\ k > 1) =>
              /\ queue[k - 1].op = "exec"
              /\ ExecValue(k - 1) = queue[k].value

\* One slot's fence has reached the slot's value while the command list of
\* a later frame is still in the queue.
C16_Witness ==
    /\ \E i \in 1..Len(m_frameResources) :
          /\ m_frameResources[i].fenceValue # 0
          /\ m_frameResources[i].completed = m_frameResources[i].fenceValue
    /\ \E k \in 1..Len(queue) : queue[k].op = "exec"

\* C17: the shared command list is Recording exactly from a BeginFrame that
\* returned it to the following EndFrame; BeginFrame resets it only when it
\* is not Recording; a command list enters the queue only in an EndFrame
\* that found it Recording and closed it successfully, with both barriers
\* recorded; the list leaves Recording only in EndFrame and enters it only
\* in BeginFrame.
C17_CommandListCycle ==
    [][/\ (phase' = "Recording") <=> (m_commandList'.state = "Recording")
       /\ BeginFrameReturnStep => m_commandList.state # "Recording"
       /\ Len(queue') > Len(queue) =>
             /\ EndFrameStep
             /\ "close" \notin call'.failed
             /\ m_commandList.state = "Recording"
             /\ m_commandList'.state = "Closed"
             /\ m_commandList'.commands =
                    <<"PRESENT->RENDER_TARGET", "RENDER_TARGET->PRESENT">>
       /\ (m_commandList.state = "Recording" /\ m_commandList'.state # "Recording")
             => EndFrameStep
       /\ (m_commandList.state # "Recording" /\ m_commandList'.state = "Recording")
             => (BeginFrameReturnStep /\ call'.returned = "list")]_vars

\* A frame was submitted although every earlier frame had been abandoned: a
\* BeginFrame returned null twice (a reset failed), or one returned null
\* and the Close of the following frame failed.
C17_Witness ==
    /\ call.op = "EndFrame"
    /\ call.outcome = "returned"
    /\ "close" \notin call.failed
    /\ beginCalls >= 3
    /\ m_nextFenceValue = FirstFenceValue + 1
    /\ Len(queue) >= 1

\* The fenceValue recorded in every slot is 0 or a value whose signal on the
\* slot's fence was enqueued: it is still in the queue or the fence has
\* taken it.
RecordedValueSignalled ==
    \A i \in 1..Len(m_frameResources) :
        \/ m_frameResources[i].fenceValue = 0
        \/ m_frameResources[i].completed >= m_frameResources[i].fenceValue
        \/ \E k \in 1..Len(queue) :
              queue[k] = SignalEntry(m_frameResources[i].frameFence,
                                     m_frameResources[i].fenceValue)

\* C18: with a GPU that keeps running, a call blocked in a wait (BeginFrame,
\* or WaitForAllFrames in OnReconfigure and ~Renderer) eventually runs on,
\* and no slot records a fenceValue whose signal was not enqueued.  This is
\* the claim as stated; an EndFrame whose Signal call fails violates it.
C18_WaitsReturnWhileGpuRuns ==
    /\ []RecordedValueSignalled
    /\ (pc = "blocked") ~> (pc # "blocked")

\* C19: when EndFrame runs, m_currentFrameIndex is an index of the pool as
\* it is then, and the slot it selects is the one the last BeginFrame reset:
\* the slot whose allocator the command list was reset against.  This is
\* the claim as stated; an OnReconfigure that re-creates the pool between
\* BeginFrame and EndFrame violates it.
C19_EndFrameIndexValid ==
    [][EndFrameStep =>
          /\ m_currentFrameIndex < Len(m_frameResources)
          /\ m_frameResources[m_currentFrameIndex + 1].commandAllocator
                = m_commandList.allocator]_vars

\* C20: frame-start and frame-end notifications alternate: BeginFrame
\* notifies a frame start only when the previous frame start has had its
\* frame end, and an EndFrame that returns leaves no frame start without
\* its frame end.  This is the claim as stated; a BeginFrame that returns
\* null and an EndFrame whose Close fails leave the frame start open.
C20_NotificationsAlternate ==
    [][/\ beginCalls' = beginCalls + 1 => ~rmFrameOpen
       /\ (EndFrameStep /\ pc' = "idle") => ~rmFrameOpen']_vars

====
